---- MODULE Spec2Model ----
(***************************************************************************)
(* Certificate fulfilment backend (blob-backed server.js).                 *)
(*                                                                         *)
(* State: the submissions table, the blob container, the local             *)
(* certificates directory, the clock, and the HTTP requests in flight.     *)
(* Every request handler is an async function: each of its awaits is an    *)
(* interleaving point, so a handler is one action per awaited call (the    *)
(* call's effect together with the synchronous code that follows it up to  *)
(* the next await or the response).                                        *)
(***************************************************************************)
EXTENDS Integers, Sequences, FiniteSets, TLC

\* ------------------------------------------------------------- bounds
MaxReq == 2
MaxRows == 2
MaxTime == 2
MaxPhoneLen == 4
MaxCallers == 2
MaxRuns == 2
MaxStoredRows == 1

\* generateBlobSASUrl(blobName, 1): the access URL lives one hour; the clock
\* of the model ticks in hours.
SasTtl == 1

\* ------------------------------------------------------------- values
NULL == "NULL"
NoKey == <<>>
NoUrl == <<>>
NoTime == -1

\* `participant.id` of an object that has no id property (undefined).
NoId == 0

Req == 1..MaxReq

\* Request body values: absent (NULL, names only), empty, blank, and a real
\* value. An absent and an empty email or phone take the same branches
\* everywhere (`!email`, `email || ""`, `email && ...`).
Names == {NULL, "Asha"}
Emails == {"", " ", "a@x.com"}
Phones == {"", " ", "9876543210"}

\* JavaScript truthiness of an optional string (undefined and "" are falsy).
Truthy(s) == s # NULL /\ s # ""

\* String.prototype.trim on the values above.
Trim(s) == IF s = " " THEN "" ELSE s

\* x || "" as bound to the INSERT parameters.
OrEmpty(s) == IF Truthy(s) THEN s ELSE ""

\* `email && email.trim() !== ""`
NonBlank(s) == Truthy(s) /\ Trim(s) # ""

\* `certificate_${id}_${Date.now()}.pdf`
CertificateFileName(id, t) == <<id, t>>

\* `${blobClient.url}?${sasToken}` with expiresOn = now + expiresInHours
generateBlobSASUrl(blobName, t) == <<blobName[1], blobName[2], t + SasTtl>>

UrlBlob(url) == <<url[1], url[2]>>
UrlExpiry(url) == url[3]

\* ------------------------------------------------------------- state
VARIABLES rows, blobs, files, now, req, sms, boot, schema, img

vars == <<rows, blobs, files, now, req, sms, boot, schema, img>>

\* The state of the request handlers, and the state of the parts that are
\* explored in specifications of their own.
handlers == <<rows, blobs, files, now, req>>

side == <<sms, boot, schema, img>>

\* A row of the submissions table as created by the INSERT of /api/submit.
NewRow(name, email, phone) ==
    [name |-> name, email |-> OrEmpty(email), phone |-> OrEmpty(phone),
     certificate_path |-> NoKey, certificate_url |-> NoUrl,
     certificate_sent |-> FALSE, certificate_sent_at |-> NoTime,
     send_method |-> NULL]

NoRow == NewRow(NULL, NULL, NULL)

\* No certificate mail composed yet.
NoMail == [to |-> NULL, name |-> NULL, certificateId |-> NoId]

\* A request slot: the handler's parameters and locals, its position, its
\* response, and a record of the collaborator calls it has made.
IdleReq ==
    [ep |-> "idle", pc |-> "idle", id |-> 0,
     name |-> NULL, email |-> NULL, phone |-> NULL,
     participant |-> NoRow,
     fileName |-> NoKey, certificateUrl |-> NoUrl, tempPath |-> NoKey,
     status |-> 0, sendMethod |-> NULL,
     inserted |-> FALSE, renders |-> 0, uploads |-> 0, existsCalls |-> 0,
     emailCalls |-> 0, smsCalls |-> 0,
     notifyOk |-> FALSE, notifyFailed |-> FALSE, uploadFailed |-> FALSE,
     pathWrites |-> 0, sentWrites |-> 0, created |-> {},
     fault |-> "none", existsThrew |-> FALSE, uploadKeys |-> {}, mail |-> NoMail,
     stale |-> FALSE]

\* sendCertificateSMS: the phone it was given (a string of characters), the
\* number it hands to client.messages.create as `to`, whether create has
\* been called, how the call ended, and whether the phone given is the
\* destination of an earlier call.
NoSms == [phone |-> <<>>, to |-> <<>>, called |-> FALSE, result |-> "none",
          fed |-> FALSE]

\* The table outlives the process: at start it is empty, or holds a
\* submission of an earlier run whose certificate was never stored, or one
\* whose certificate was stored just before.
StoredTables ==
    {<<>>,
     <<NewRow("Asha", "a@x.com", "9876543210")>>,
     <<[NewRow("Asha", "a@x.com", "9876543210")
          EXCEPT !.certificate_path = CertificateFileName(1, 0),
                 !.certificate_url = generateBlobSASUrl(CertificateFileName(1, 0), 0)]>>}

\* The container holds the blobs the stored rows refer to.
StoredBlobs(tbl) ==
    {tbl[i].certificate_path : i \in 1..Len(tbl)} \ {NoKey}

\* Module load: `let pool = null`, `let containerClient`; no caller yet.
Callers == 1..MaxCallers

IdleCaller ==
    [pc |-> "idle", pool |-> 0, conn |-> 0, storeEarly |-> FALSE, blobEarly |-> FALSE]

NoBoot ==
    [pool |-> 0, connects |-> 0, containerClient |-> FALSE, clients |-> 0,
     container |-> FALSE, confirmed |-> FALSE,
     dbInit |-> "idle", blobInit |-> "idle", exited |-> FALSE,
     caller |-> [c \in Callers |-> IdleCaller]]

\* The columns of the submissions table the handlers use, out of the
\* CREATE TABLE list.
Columns == {"name", "certificate_path", "certificate_url", "send_method"}

\* A database without the submissions table, initializeDatabase not run.
NoSchema ==
    [table |-> FALSE, cols |-> [c \in Columns |-> "absent"], index |-> FALSE,
     nrows |-> 0, pc |-> "idle", runs |-> 0,
     orig |-> <<>>, settled |-> <<>>]

\* The image files generateCertificate looks for: the same file names under
\* the module's directory and under the working directory.
Dirs == {"module", "cwd"}

Bases == {"background_image.png", "logo_left.png", "logo_right.png"}

Assets == Dirs \X Bases

NoAsset == <<>>

\* An empty image cache, optimizeImage not called.
NoImg ==
    [cache |-> [b \in Bases |-> NoAsset],
     processed |-> [a \in Assets |-> 0],
     last |-> [asset |-> NoAsset, result |-> "none", from |-> NoAsset]]

\* No request has arrived and nothing is stored.
NoRequests ==
    /\ rows = <<>> /\ blobs = {} /\ files = {} /\ now = 0
    /\ req = [r \in Req |-> IdleReq]

Init ==
    /\ rows \in StoredTables
    /\ blobs = StoredBlobs(rows)
    /\ files = {}
    /\ now = 0
    /\ req = [r \in Req |-> IdleReq]
    /\ sms = NoSms
    /\ boot = NoBoot
    /\ schema = NoSchema
    /\ img = NoImg

Ids == 1..MaxRows

\* ------------------------------------------------------------- SQL
\* SetCertificate with the delivery flag reset by a regeneration.
SetCertificate_ResetsSent(row, key, url) ==
    [row EXCEPT !.certificate_path = key, !.certificate_url = url,
                !.certificate_sent = FALSE]

\* MarkSent that keeps a timestamp already present.
MarkSent_KeepsFirstTimestamp(row, t) ==
    [row EXCEPT !.certificate_sent = TRUE,
                !.certificate_sent_at = IF @ = NoTime THEN t ELSE @]

\* SetCertificate that leaves a URL already present as it is.
SetCertificate_KeepsFirstUrl(row, key, url) ==
    [row EXCEPT !.certificate_path = key,
                !.certificate_url = IF @ = NoUrl THEN url ELSE @]

\* SetCertificate that writes the URL only.
SetCertificate_OmitsPath(row, key, url) == [row EXCEPT !.certificate_url = url]

\* UPDATE submissions SET certificate_path = @certificate_path,
\*   certificate_url = @certificate_url WHERE id = @id
SetCertificate(row, key, url) ==
    [row EXCEPT !.certificate_path = key, !.certificate_url = url]

\* UPDATE submissions SET certificate_sent = 1, certificate_sent_at = GETDATE(),
\*   send_method = @send_method WHERE id = @id
MarkSentWithMethod(row, method, t) ==
    [row EXCEPT !.certificate_sent = TRUE, !.certificate_sent_at = t,
                !.send_method = method]

\* UPDATE submissions SET certificate_sent = 1, certificate_sent_at = GETDATE()
\*   WHERE id = @id
MarkSent(row, t) ==
    [row EXCEPT !.certificate_sent = TRUE, !.certificate_sent_at = t]

\* UpdateRow without the WHERE clause.
UpdateRow_WithoutWhere(tbl, id, new) == [i \in 1..Len(tbl) |-> new]

\* The UPDATE ... WHERE id = @id applied to the table (no row: no effect).
UpdateRow(tbl, id, new) ==
    IF id \in 1..Len(tbl) THEN [tbl EXCEPT ![id] = new] ELSE tbl

\* ------------------------------------------------------------- handler pieces
\* res.status(code).json(...): the handler returns and its locals go out of
\* scope; what stays is the response and the record of what the request did.
Respond(q, code) ==
    [q EXCEPT !.pc = "done", !.status = code,
              !.name = NULL, !.email = NULL, !.phone = NULL, !.participant = NoRow,
              !.fileName = NoKey, !.certificateUrl = NoUrl, !.tempPath = NoKey,
              !.stale = FALSE]

\* A catch block that answers 400.
Catch_RespondsBadRequest(q) == Respond(q, 400)

\* catch (error) { res.status(500).json({ error: ... }) }
Catch(q) == Respond(q, 500)

\* The catch block reached from the statement `step` that threw.
Fail(q, step) == Catch([q EXCEPT !.fault = step])

\* Channel with the two branches in the other order.
Channel_PhoneFirst(email, phone) ==
    IF NonBlank(phone) THEN "sms"
    ELSE IF NonBlank(email) THEN "email"
    ELSE "none"

\* The channel chosen by the if / else if of /api/submit.
Channel(email, phone) ==
    IF NonBlank(email) THEN "email"
    ELSE IF NonBlank(phone) THEN "sms"
    ELSE "none"

\* The certificate mail sendCertificateEmail(participant, path) composes:
\* `to: participant.email`, "Dear ${participant.name}" and the certificate
\* id `YV-${participant.id}-2026`.
MailOf(participant) ==
    [to |-> participant.email, name |-> participant.name,
     certificateId |-> participant.id]

\* fs.unlinkSync(path): throws when the file is not there.
CanUnlink(f) == f \in files

\* The handlers never touch the message state of the SMS service (SmsSpec).
SetAll(rq) == req' = rq /\ UNCHANGED side

Set(r, q) == SetAll([req EXCEPT ![r] = q])

\* Requests are numbered in the order they arrive; none arrives at a process
\* that has exited.
Arrives(r) ==
    /\ req[r].ep = "idle"
    /\ \A p \in Req : p < r => req[p].ep # "idle"
    /\ \A p \in Req : req[p].pc # "crashed"

\* ------------------------------------------------------------- POST /api/submit
PendingInserts == Cardinality({r \in Req : req[r].ep = "submit" /\ req[r].pc = "insert"})

\* Validation of the body, then await getConnection().
SubmitValidate(q) ==
    IF ~Truthy(q.name) THEN Respond(q, 400)
    ELSE IF ~Truthy(q.email) /\ ~Truthy(q.phone) THEN Respond(q, 400)
    ELSE [q EXCEPT !.pc = "insert"]

SubmitBegin(r) ==
    /\ Arrives(r)
    /\ Len(rows) + PendingInserts < MaxRows
    /\ \E name \in Names, email \in Emails, phone \in Phones :
         Set(r, SubmitValidate([req[r] EXCEPT !.ep = "submit", !.name = name,
                                              !.email = email, !.phone = phone]))
    /\ UNCHANGED <<rows, blobs, files, now>>

\* INSERT ... SELECT SCOPE_IDENTITY(); then the file name is chosen.
SubmitInsert(r) ==
    /\ req[r].ep = "submit" /\ req[r].pc = "insert"
    /\ \/ /\ rows' = Append(rows, NewRow(req[r].name, req[r].email, req[r].phone))
          /\ Set(r, [req[r] EXCEPT !.id = Len(rows) + 1, !.inserted = TRUE,
                                   !.fileName = CertificateFileName(Len(rows) + 1, now),
                                   !.pc = "render"])
       \/ /\ Set(r, Fail(req[r], "db"))
          /\ UNCHANGED rows
    /\ UNCHANGED <<blobs, files, now>>

\* ------------------------------------------------------------- collaborators
\* generateCertificate: resolves once the write stream has finished; rejects
\* on a stream error, with the file either never opened or left partial.
\* The stream's "error" listener is attached only after the awaited image
\* steps: a stream error emitted before that (the file cannot be opened)
\* has no listener and ends the process as an uncaught exception ("crash").
RenderOutcomes == {"ok", "fail_nofile", "fail_partial", "crash"}

FilesAfterRender(fs, f, out) ==
    IF out \in {"fail_nofile", "crash"} THEN fs ELSE fs \cup {f}

\* uploadToBlob: blockBlobClient.upload then generateBlobSASUrl; either may
\* throw, and the error is rethrown to the handler.
UploadOutcomes == {"ok", "fail_upload", "fail_sas"}

BlobsAfterUpload(bs, key, out) == IF out = "fail_upload" THEN bs ELSE bs \cup {key}

\* blobExists that never finds the blob.
blobExists_AlwaysAbsent(blobName, sdkThrows) == FALSE

\* blobExists: the SDK's answer, or false when the SDK call throws.
blobExists(blobName, sdkThrows) == IF sdkThrows THEN FALSE ELSE blobName \in blobs

\* The SAS token's expiresOn has passed.
Expired(url) == now > UrlExpiry(url)

\* axios.get(url): the signed URL serves the blob until the URL expires.
CanDownload(url) == UrlBlob(url) \in blobs /\ ~Expired(url)

\* nodemailer reads the attachment from `path` when the mail is sent.
CanAttach(f) == f \in files

\* The handler after `await generateCertificate(...)`.
AfterRender(q, out) ==
    LET q1 == [q EXCEPT !.renders = @ + 1,
                        !.created = IF out \in {"fail_nofile", "crash"}
                                     THEN @ ELSE @ \cup {q.fileName}]
    IN  IF out = "ok" THEN [q1 EXCEPT !.pc = "upload"] ELSE Fail(q1, "render")

\* The process exits on the uncaught exception: the rendering request and
\* every other request in flight are dropped without a response.
Dropped(q) == [Respond(q, 0) EXCEPT !.pc = "crashed"]

Crash(r) ==
    [p \in Req |->
       IF p = r THEN Dropped([AfterRender(req[r], "crash") EXCEPT !.fault = "render"])
       ELSE IF req[p].pc \in {"idle", "done"} THEN req[p]
       ELSE Dropped(req[p])]

\* await generateCertificate(...) and what the handler does with its outcome.
Render(r) ==
    \E out \in RenderOutcomes :
      /\ files' = FilesAfterRender(files, req[r].fileName, out)
      /\ IF out = "crash" THEN SetAll(Crash(r)) ELSE Set(r, AfterRender(req[r], out))

\* AfterUpload with the upload error swallowed.
AfterUpload_IgnoresFailure(q, out) ==
    [q EXCEPT !.uploads = @ + 1, !.uploadKeys = @ \cup {q.fileName},
              !.uploadFailed = (out # "ok"),
              !.certificateUrl = generateBlobSASUrl(q.fileName, now),
              !.pc = "updatePath"]

\* The handler after `await uploadToBlob(...)`.
AfterUpload(q, out) ==
    LET q1 == [q EXCEPT !.uploads = @ + 1, !.uploadKeys = @ \cup {q.fileName}]
    IN  IF out = "ok"
        THEN [q1 EXCEPT !.certificateUrl = generateBlobSASUrl(q.fileName, now),
                        !.pc = "updatePath"]
        ELSE Fail([q1 EXCEPT !.uploadFailed = TRUE], "upload")

\* AfterNotify with the notifier's error swallowed.
AfterNotify_IgnoresFailure(q, channel, ok) ==
    [q EXCEPT !.emailCalls = IF channel = "email" THEN @ + 1 ELSE @,
              !.smsCalls = IF channel = "sms" THEN @ + 1 ELSE @,
              !.notifyOk = ok, !.notifyFailed = ~ok, !.pc = "markSent"]

\* The handler after `await sendCertificateEmail(...)` / `sendCertificateSMS(...)`.
AfterNotify(q, channel, ok) ==
    LET q1 == [q EXCEPT !.emailCalls = IF channel = "email" THEN @ + 1 ELSE @,
                        !.smsCalls = IF channel = "sms" THEN @ + 1 ELSE @]
    IN  IF ok THEN [q1 EXCEPT !.notifyOk = TRUE, !.pc = "markSent"]
        ELSE Fail([q1 EXCEPT !.notifyFailed = TRUE], "notify")

SubmitRender(r) ==
    /\ req[r].ep = "submit" /\ req[r].pc = "render"
    /\ Render(r)
    /\ UNCHANGED <<rows, blobs, now>>

SubmitUpload(r) ==
    /\ req[r].ep = "submit" /\ req[r].pc = "upload"
    /\ \E out \in UploadOutcomes :
         /\ blobs' = BlobsAfterUpload(blobs, req[r].fileName, out)
         /\ Set(r, AfterUpload(req[r], out))
    /\ UNCHANGED <<rows, files, now>>

\* fs.unlinkSync(tempCertificatePath) and the 201 response.
SubmitFinish(r, q) ==
    IF CanUnlink(q.fileName)
    THEN /\ files' = files \ {q.fileName}
         /\ Set(r, [Respond(q, 201) EXCEPT !.sendMethod = Channel(q.email, q.phone)])
    ELSE /\ files' = files
         /\ Set(r, Fail(q, "unlink"))

\* The UPDATE of certificate_path / certificate_url, then the channel choice.
SubmitUpdatePath(r) ==
    /\ req[r].ep = "submit" /\ req[r].pc = "updatePath"
    /\ \/ /\ rows' = UpdateRow(rows, req[r].id,
                       SetCertificate(rows[req[r].id], req[r].fileName, req[r].certificateUrl))
          /\ LET q == [req[r] EXCEPT !.pathWrites = @ + 1]
             IN  IF Channel(q.email, q.phone) = "none"
                 THEN SubmitFinish(r, q)
                 ELSE /\ Set(r, [q EXCEPT !.pc = "notify"])
                      /\ files' = files
       \/ /\ Set(r, Fail(req[r], "db"))
          /\ UNCHANGED <<rows, files>>
    /\ UNCHANGED <<blobs, now>>

\* The object literal /api/submit hands to the mailer: { name, email }.
SubmitCompose(q, ch) ==
    IF ch = "email"
    THEN [q EXCEPT !.mail = MailOf([name |-> q.name, email |-> q.email, id |-> NoId])]
    ELSE q

\* sendCertificateEmail({name, email}, tempCertificatePath) or
\* sendCertificateSMS({id, name, phone}, blobUrl).
SubmitNotify(r) ==
    /\ req[r].ep = "submit" /\ req[r].pc = "notify"
    /\ LET ch == Channel(req[r].email, req[r].phone)
       IN  \E ok \in BOOLEAN :
             /\ (ok /\ ch = "email") => CanAttach(req[r].fileName)
             /\ Set(r, AfterNotify(SubmitCompose(req[r], ch), ch, ok))
    /\ UNCHANGED <<rows, blobs, files, now>>

\* The UPDATE that records the delivery, then cleanup and the response.
SubmitMarkSent(r) ==
    /\ req[r].ep = "submit" /\ req[r].pc = "markSent"
    /\ \/ /\ rows' = UpdateRow(rows, req[r].id,
                       MarkSentWithMethod(rows[req[r].id],
                                          Channel(req[r].email, req[r].phone), now))
          /\ SubmitFinish(r, [req[r] EXCEPT !.sentWrites = @ + 1])
       \/ /\ Set(r, Fail(req[r], "db"))
          /\ UNCHANGED <<rows, files>>
    /\ UNCHANGED <<blobs, now>>

\* ------------------------------------------------------------- by-id endpoints
ByIdEndpoints == {"generate", "sendcert", "sendsms", "download"}

\* `certificate_${id}_${Date.now()}.pdf` chosen, generateCertificate called.
StartRegen(q) == [q EXCEPT !.fileName = CertificateFileName(q.id, now), !.pc = "render"]

\* `let certificateUrl = participant.certificate_url;` and the left operand of
\* `!certificateUrl || !(await blobExists(participant.certificate_path))`.
CheckArtifact(q) ==
    LET q1 == [q EXCEPT !.certificateUrl = q.participant.certificate_url]
    IN  IF q1.certificateUrl = NoUrl THEN StartRegen(q1)
        ELSE [q1 EXCEPT !.pc = "exists", !.stale = Expired(q1.certificateUrl)]

\* The code that follows the availability check / regeneration block.
AfterArtifact(q) ==
    CASE q.ep = "generate" -> Respond(q, 200)
      [] q.ep = "sendcert" ->
           \* path.join(certificatesDir, participant.certificate_path) throws a
           \* TypeError on null; then axios.get(certificateUrl) is awaited.
           IF q.participant.certificate_path = NoKey THEN Fail(q, "path")
           ELSE [q EXCEPT !.tempPath = q.participant.certificate_path, !.pc = "download"]
      [] q.ep = "sendsms" -> [q EXCEPT !.pc = "notify"]
      [] q.ep = "download" -> [q EXCEPT !.pc = "download"]

\* The handler after SELECT * FROM submissions WHERE id = @id has returned.
AfterSelect(q, tbl) ==
    IF q.id \notin 1..Len(tbl) THEN Respond(q, 404)
    ELSE LET q1 == [q EXCEPT !.participant = tbl[q.id]]
         IN  CASE q.ep = "generate" -> StartRegen(q1)
               [] q.ep = "sendcert" ->
                    IF ~Truthy(q1.participant.email) \/ Trim(q1.participant.email) = ""
                    THEN Respond(q1, 400) ELSE CheckArtifact(q1)
               [] q.ep = "sendsms" ->
                    IF ~Truthy(q1.participant.phone) \/ Trim(q1.participant.phone) = ""
                    THEN Respond(q1, 400) ELSE CheckArtifact(q1)
               [] q.ep = "download" -> CheckArtifact(q1)

Select(r, ep) ==
    /\ Arrives(r)
    /\ \E id \in Ids :
         LET q == [req[r] EXCEPT !.ep = ep, !.id = id]
         IN  \/ Set(r, AfterSelect(q, rows))
             \/ Set(r, Fail(q, "db"))
    /\ UNCHANGED <<rows, blobs, files, now>>

GenerateSelect(r) == Select(r, "generate")

SendCertSelect(r) == Select(r, "sendcert")

SendSmsSelect(r) == Select(r, "sendsms")

DownloadSelect(r) == Select(r, "download")

\* await blobExists(participant.certificate_path)
Exists(r) ==
    /\ req[r].ep \in ByIdEndpoints /\ req[r].pc = "exists"
    /\ \E sdkThrows \in BOOLEAN :
         LET q == [req[r] EXCEPT !.existsCalls = @ + 1, !.existsThrew = sdkThrows]
         IN  IF blobExists(q.participant.certificate_path, sdkThrows)
             THEN Set(r, AfterArtifact(q))
             ELSE Set(r, StartRegen(q))
    /\ UNCHANGED <<rows, blobs, files, now>>

RegenRender(r) ==
    /\ req[r].ep \in ByIdEndpoints /\ req[r].pc = "render"
    /\ Render(r)
    /\ UNCHANGED <<rows, blobs, now>>

RegenUpload(r) ==
    /\ req[r].ep \in ByIdEndpoints /\ req[r].pc = "upload"
    /\ \E out \in UploadOutcomes :
         /\ blobs' = BlobsAfterUpload(blobs, req[r].fileName, out)
         /\ Set(r, AfterUpload(req[r], out))
    /\ UNCHANGED <<rows, files, now>>

\* The UPDATE of certificate_path / certificate_url, fs.unlinkSync of the
\* rendered file, then the code after the block.
RegenUpdatePath(r) ==
    /\ req[r].ep \in ByIdEndpoints /\ req[r].pc = "updatePath"
    /\ \/ /\ rows' = UpdateRow(rows, req[r].id,
                       SetCertificate(rows[req[r].id], req[r].fileName, req[r].certificateUrl))
          /\ LET q == [req[r] EXCEPT !.pathWrites = @ + 1]
             IN  IF CanUnlink(q.fileName)
                 THEN /\ files' = files \ {q.fileName}
                      /\ Set(r, AfterArtifact(q))
                 ELSE /\ files' = files
                      /\ Set(r, Fail(q, "unlink"))
       \/ /\ Set(r, Fail(req[r], "db"))
          /\ UNCHANGED <<rows, files>>
    /\ UNCHANGED <<blobs, now>>

\* axios.get(certificateUrl), then fs.writeFileSync(tempPath, response.data).
SendCertDownload(r) ==
    /\ req[r].ep = "sendcert" /\ req[r].pc = "download"
    /\ \/ /\ CanDownload(req[r].certificateUrl)
          /\ files' = files \cup {req[r].tempPath}
          /\ Set(r, [req[r] EXCEPT !.created = @ \cup {req[r].tempPath}, !.pc = "notify"])
       \/ /\ Set(r, Fail(req[r], "download"))
          /\ UNCHANGED files
    /\ UNCHANGED <<rows, blobs, now>>

\* axios.get(certificateUrl), then res.send(Buffer.from(response.data)).
DownloadFetch(r) ==
    /\ req[r].ep = "download" /\ req[r].pc = "download"
    /\ \/ /\ CanDownload(req[r].certificateUrl)
          /\ Set(r, Respond(req[r], 200))
       \/ Set(r, Fail(req[r], "download"))
    /\ UNCHANGED <<rows, blobs, files, now>>

\* /api/send-certificate/:id hands the selected row (SELECT *, id included)
\* to the mailer.
SendCertCompose(q) ==
    [q EXCEPT !.mail = MailOf([name |-> q.participant.name,
                               email |-> q.participant.email, id |-> q.id])]

\* await sendCertificateEmail(participant, tempPath)
SendCertNotify(r) ==
    /\ req[r].ep = "sendcert" /\ req[r].pc = "notify"
    /\ \E ok \in BOOLEAN :
         /\ ok => CanAttach(req[r].tempPath)
         /\ Set(r, AfterNotify(SendCertCompose(req[r]), "email", ok))
    /\ UNCHANGED <<rows, blobs, files, now>>

\* SendSmsNotify with a compensating rollback of the artifact reference
\* when the SMS fails.
SendSmsNotify_RollsBack(r) ==
    /\ req[r].ep = "sendsms" /\ req[r].pc = "notify"
    /\ \E ok \in BOOLEAN :
         /\ Set(r, AfterNotify(req[r], "sms", ok))
         /\ rows' = IF ok THEN rows
                    ELSE UpdateRow(rows, req[r].id,
                                   SetCertificate(rows[req[r].id], NoKey, NoUrl))
    /\ UNCHANGED <<blobs, files, now>>

\* await sendCertificateSMS(participant, certificateUrl)
SendSmsNotify(r) ==
    /\ req[r].ep = "sendsms" /\ req[r].pc = "notify"
    /\ \E ok \in BOOLEAN : Set(r, AfterNotify(req[r], "sms", ok))
    /\ UNCHANGED <<rows, blobs, files, now>>

\* The UPDATE that records the delivery, fs.unlinkSync(tempPath), response.
SendCertMarkSent(r) ==
    /\ req[r].ep = "sendcert" /\ req[r].pc = "markSent"
    /\ \/ /\ rows' = UpdateRow(rows, req[r].id, MarkSent(rows[req[r].id], now))
          /\ LET q == [req[r] EXCEPT !.sentWrites = @ + 1]
             IN  IF CanUnlink(q.tempPath)
                 THEN /\ files' = files \ {q.tempPath}
                      /\ Set(r, Respond(q, 200))
                 ELSE /\ files' = files
                      /\ Set(r, Fail(q, "unlink"))
       \/ /\ Set(r, Fail(req[r], "db"))
          /\ UNCHANGED <<rows, files>>
    /\ UNCHANGED <<blobs, now>>

\* The UPDATE that records the delivery, then the response.
SendSmsMarkSent(r) ==
    /\ req[r].ep = "sendsms" /\ req[r].pc = "markSent"
    /\ \/ /\ rows' = UpdateRow(rows, req[r].id, MarkSent(rows[req[r].id], now))
          /\ Set(r, Respond([req[r] EXCEPT !.sentWrites = @ + 1], 200))
       \/ /\ Set(r, Fail(req[r], "db"))
          /\ UNCHANGED rows
    /\ UNCHANGED <<blobs, files, now>>

\* ------------------------------------------------------------- read-only endpoints
\* GET /api/data: SELECT * FROM submissions ORDER BY created_at DESC.
DataSelect(r) ==
    /\ Arrives(r)
    /\ LET q == [req[r] EXCEPT !.ep = "data"]
       IN  \/ Set(r, Respond(q, 200))
           \/ Set(r, Fail(q, "db"))
    /\ UNCHANGED <<rows, blobs, files, now>>

\* GET /api/health: res.json({ status: "Server is running" }).
Health(r) ==
    /\ Arrives(r)
    /\ Set(r, Respond([req[r] EXCEPT !.ep = "health"], 200))
    /\ UNCHANGED <<rows, blobs, files, now>>

\* ------------------------------------------------------------- clock
\* Time passes between any two steps (Date.now(), GETDATE(), SAS expiry).
Tick ==
    /\ now < MaxTime
    /\ now' = now + 1
    /\ UNCHANGED <<rows, blobs, files, req, side>>

\* ------------------------------------------------------------- sendCertificateSMS
\* The characters a phone string is made of: the plus sign, a digit, a blank.
PhoneChars == {"+", "9", " "}

RECURSIVE StringsUpTo(_)
StringsUpTo(n) ==
    IF n = 0 THEN {<<>>}
    ELSE LET shorter == StringsUpTo(n - 1)
         IN  shorter \cup {Append(s, c) : s \in shorter, c \in PhoneChars}

PhoneStrings == StringsUpTo(MaxPhoneLen)

\* String.prototype.trim
RECURSIVE TrimStart(_)
TrimStart(s) == IF s # <<>> /\ Head(s) = " " THEN TrimStart(Tail(s)) ELSE s

RECURSIVE TrimEnd(_)
TrimEnd(s) ==
    IF s # <<>> /\ s[Len(s)] = " " THEN TrimEnd(SubSeq(s, 1, Len(s) - 1)) ELSE s

TrimChars(s) == TrimEnd(TrimStart(s))

\* phoneNumber.startsWith("+")
StartsWithPlus(s) == s # <<>> /\ Head(s) = "+"

\* `+91${phoneNumber}`
CountryCode == <<"+", "9", "1">>

\* NormalizePhone without the trim.
NormalizePhone_NoTrim(phone) ==
    IF StartsWithPlus(phone) THEN phone ELSE CountryCode \o phone

\* let phoneNumber = participant.phone.trim();
\* if (!phoneNumber.startsWith("+")) phoneNumber = `+91${phoneNumber}`;
NormalizePhone(phone) ==
    LET phoneNumber == TrimChars(phone)
    IN  IF StartsWithPlus(phoneNumber) THEN phoneNumber ELSE CountryCode \o phoneNumber

\* initializeTwilio() throws, or client.messages.create resolves or rejects.
SmsOutcomes == {"sent", "rejected", "noclient"}

\* sendCertificateSMS(participant, certificateUrl)
SmsCall ==
    /\ sms.result = "none"
    /\ \E out \in SmsOutcomes :
         sms' = IF out = "noclient" THEN [sms EXCEPT !.result = "error"]
                ELSE [sms EXCEPT !.to = NormalizePhone(sms.phone), !.called = TRUE,
                                 !.result = IF out = "sent" THEN "sent" ELSE "error"]
    /\ UNCHANGED <<handlers, boot, schema, img>>

\* A later call is given the destination of the earlier one as the phone
\* (a submission stored with the number already in international form).
SmsFeedBack ==
    /\ sms.called /\ ~sms.fed
    /\ sms' = [NoSms EXCEPT !.phone = sms.to, !.fed = TRUE]
    /\ UNCHANGED <<handlers, boot, schema, img>>

SmsInit ==
    /\ NoRequests
    /\ boot = NoBoot
    /\ schema = NoSchema
    /\ img = NoImg
    /\ sms \in {[NoSms EXCEPT !.phone = p] : p \in PhoneStrings}

SmsNext == SmsCall \/ SmsFeedBack

SmsSpec == SmsInit /\ [][SmsNext]_vars

\* ------------------------------------------------------------- startup and the shared clients
\* sql.connect(config) invoked by getConnection: the invocation is counted
\* and numbered; the pool it resolves to carries that number.
Connect(b) == [b EXCEPT !.connects = @ + 1]

\* server.js at load: Promise.all([initializeDatabase(), initializeBlobStorage()])
\* runs both up to their first await (sql.connect invoked with pool null;
\* containerClient assigned, containerClient.exists() pending), then
\* app.listen: requests are accepted from here on. The container is there
\* or not.
BootInit ==
    /\ NoRequests
    /\ sms = NoSms /\ schema = NoSchema /\ img = NoImg
    /\ \E present \in BOOLEAN :
         boot = [Connect(NoBoot) EXCEPT !.dbInit = "connecting",
                                        !.containerClient = TRUE, !.clients = 1,
                                        !.blobInit = "exists", !.container = present]

\* .catch((err) => { process.exit(1) })
InitFailed(b, which) ==
    IF which = "db" THEN [b EXCEPT !.dbInit = "failed", !.exited = TRUE]
    ELSE [b EXCEPT !.blobInit = "failed", !.exited = TRUE]

\* initializeDatabase: `pool = await sql.connect(config)` in getConnection,
\* then the CREATE TABLE batch, then the ALTER TABLE batch.
StartupDb ==
    /\ ~boot.exited
    /\ boot.dbInit \in {"connecting", "create", "alter"}
    /\ \/ boot' = InitFailed(boot, "db")
       \/ boot' = CASE boot.dbInit = "connecting" ->
                         [boot EXCEPT !.pool = 1, !.dbInit = "create"]
                     [] boot.dbInit = "create" -> [boot EXCEPT !.dbInit = "alter"]
                     [] boot.dbInit = "alter" -> [boot EXCEPT !.dbInit = "done"]
    /\ UNCHANGED <<handlers, sms, schema, img>>

\* initializeBlobStorage after the client is assigned: await
\* containerClient.exists(), then await containerClient.create() if needed.
StartupBlob ==
    /\ ~boot.exited
    /\ boot.blobInit \in {"exists", "create"}
    /\ \/ boot' = InitFailed(boot, "blob")
       \/ boot' = IF boot.blobInit = "exists" /\ ~boot.container
                  THEN [boot EXCEPT !.blobInit = "create"]
                  ELSE [boot EXCEPT !.blobInit = "done", !.container = TRUE,
                                    !.confirmed = TRUE]
    /\ UNCHANGED <<handlers, sms, schema, img>>

\* Startup initialisation has completed successfully.
Initialised(b) == b.dbInit = "done" /\ b.blobInit = "done"

SetCaller(c, k) == boot' = [boot EXCEPT !.caller[c] = k]

\* A handler's `const pool = await getConnection()`: `if (pool) return pool`,
\* else sql.connect is invoked and awaited.
CallerGetConnection(c) ==
    /\ ~boot.exited
    /\ boot.caller[c].pc = "idle"
    /\ boot' = IF boot.pool # 0
               THEN [boot EXCEPT !.caller[c].pool = boot.pool, !.caller[c].pc = "query"]
               ELSE [Connect(boot) EXCEPT !.caller[c].conn = boot.connects + 1,
                                          !.caller[c].pc = "connecting"]
    /\ UNCHANGED <<handlers, sms, schema, img>>

\* The caller's sql.connect settles: `pool = await sql.connect(config)`,
\* `return pool`; a rejection is rethrown and the handler answers 500.
CallerConnected(c) ==
    /\ ~boot.exited
    /\ boot.caller[c].pc = "connecting"
    /\ \/ boot' = [boot EXCEPT !.pool = boot.caller[c].conn,
                                !.caller[c].pool = boot.caller[c].conn,
                                !.caller[c].pc = "query"]
       \/ SetCaller(c, [boot.caller[c] EXCEPT !.pc = "done"])
    /\ UNCHANGED <<handlers, sms, schema, img>>

\* await pool.request().query(...): the handler's first store operation.
CallerQuery(c) ==
    /\ ~boot.exited
    /\ boot.caller[c].pc = "query"
    /\ SetCaller(c, [boot.caller[c] EXCEPT !.storeEarly = ~Initialised(boot),
                                           !.pc = "blob"])
    /\ UNCHANGED <<handlers, sms, schema, img>>

\* uploadToBlob / blobExists: `if (!containerClient) await
\* initializeBlobStorage()`, then the operation on the container.
CallerBlob(c) ==
    /\ ~boot.exited
    /\ boot.caller[c].pc = "blob"
    /\ boot' = IF boot.containerClient
               THEN [boot EXCEPT !.caller[c].blobEarly = ~boot.confirmed,
                                 !.caller[c].pc = "done"]
               ELSE [boot EXCEPT !.containerClient = TRUE, !.clients = @ + 1,
                                 !.container = TRUE, !.confirmed = TRUE,
                                 !.caller[c].pc = "done"]
    /\ UNCHANGED <<handlers, sms, schema, img>>

\* SIGINT: closeConnection() (pool.close(); pool = null), process.exit(0).
Shutdown ==
    /\ ~boot.exited
    /\ boot' = [boot EXCEPT !.pool = 0, !.exited = TRUE]
    /\ UNCHANGED <<handlers, sms, schema, img>>

BootNext ==
    \/ StartupDb
    \/ StartupBlob
    \/ \E c \in Callers : CallerGetConnection(c)
    \/ \E c \in Callers : CallerConnected(c)
    \/ \E c \in Callers : CallerQuery(c)
    \/ \E c \in Callers : CallerBlob(c)
    \/ Shutdown

BootSpec == BootInit /\ [][BootNext]_vars

\* ------------------------------------------------------------- initializeDatabase
\* The schema as the statements of initializeDatabase see it.
Shape(sc) == [table |-> sc.table, cols |-> sc.cols, index |-> sc.index, nrows |-> sc.nrows]

\* Any existing schema: no table, or a table with any of the columns, each
\* nullable or not, with or without rows.
ExistingSchemas ==
    {NoSchema} \cup
    {[NoSchema EXCEPT !.table = TRUE, !.cols = cs, !.index = ix, !.nrows = n] :
       cs \in [Columns -> {"absent", "null", "notnull"}],
       ix \in BOOLEAN, n \in 0..MaxStoredRows}

SchemaInit ==
    /\ NoRequests
    /\ sms = NoSms /\ boot = NoBoot /\ img = NoImg
    /\ \E sc \in ExistingSchemas : schema = [sc EXCEPT !.orig = Shape(sc)]

\* CREATE TABLE submissions (... name NVARCHAR(255) NOT NULL, ...
\* certificate_path ... NULL, certificate_url ... NULL, send_method ... NULL)
CreatedColumns == [c \in Columns |-> IF c = "name" THEN "notnull" ELSE "null"]

\* ADD that redefines a column already there.
AddColumn_Redefines(cols, c) == [cols EXCEPT ![c] = "null"]

\* IF NOT EXISTS (... COLUMN_NAME = c) ALTER TABLE submissions ADD c NVARCHAR(n)
\* (a column added without NOT NULL is nullable).
AddColumn(cols, c) == IF cols[c] = "absent" THEN [cols EXCEPT ![c] = "null"] ELSE cols

\* await pool.request().query(createTableQuery): IF NOT EXISTS (the table)
\* CREATE TABLE and CREATE INDEX; a failure is rethrown.
SchemaCreate ==
    /\ schema.pc = "idle"
    /\ \/ schema' = IF schema.table THEN [schema EXCEPT !.pc = "alter"]
                     ELSE [schema EXCEPT !.table = TRUE, !.cols = CreatedColumns,
                                         !.index = TRUE, !.pc = "alter"]
       \/ schema' = [schema EXCEPT !.pc = "failed"]
    /\ UNCHANGED <<handlers, sms, boot, img>>

\* The schema once the ALTER batch has ended: entirely, after its first
\* statement, or before it.
Settle(sc, cols, ok) ==
    LET sc1 == [sc EXCEPT !.cols = cols, !.pc = IF ok THEN "done" ELSE "failed"]
    IN  IF ok /\ sc.settled = <<>> THEN [sc1 EXCEPT !.settled = Shape(sc1)] ELSE sc1

\* await pool.request().query(alterTableQuery): the two guarded ALTER TABLE
\* statements; a failure is rethrown.
SchemaAlter ==
    /\ schema.pc = "alter"
    /\ LET one == AddColumn(schema.cols, "certificate_url")
           both == AddColumn(one, "send_method")
       IN  \/ schema' = Settle(schema, both, TRUE)
           \/ schema' = Settle(schema, one, FALSE)
           \/ schema' = Settle(schema, schema.cols, FALSE)
    /\ UNCHANGED <<handlers, sms, boot, img>>

\* The process is started again: initializeDatabase runs once more.
SchemaRerun ==
    /\ schema.pc \in {"done", "failed"}
    /\ schema.runs + 1 < MaxRuns
    /\ schema' = [schema EXCEPT !.pc = "idle", !.runs = @ + 1]
    /\ UNCHANGED <<handlers, sms, boot, img>>

SchemaNext == SchemaCreate \/ SchemaAlter \/ SchemaRerun

SchemaSpec == SchemaInit /\ [][SchemaNext]_vars

\* ------------------------------------------------------------- optimizeImage
\* path.basename(imagePath)
Basename(asset) == asset[2]

\* path.join(CACHE_DIR, `optimized_${fileName}`): the cache entry an image
\* path is looked up under.
CacheKey(asset) == Basename(asset)

\* fs.mkdirSync(CACHE_DIR) throws (outside the try), or sharp(...).toFile
\* resolves or rejects.
ImageOutcomes == {"ok", "sharp_fails", "mkdir_fails"}

\* optimizeImage(imagePath, maxWidth) called by drawBackgroundCover or
\* drawLogoFixedHeight for an image file that exists.
optimizeImage(a) ==
    /\ \E out \in ImageOutcomes :
         LET key == CacheKey(a)
         IN  img' =
               IF out = "mkdir_fails"
               THEN [img EXCEPT !.last = [asset |-> a, result |-> "threw", from |-> NoAsset]]
               ELSE IF img.cache[key] # NoAsset
               THEN [img EXCEPT !.last = [asset |-> a, result |-> "cached",
                                          from |-> img.cache[key]]]
               ELSE IF out = "ok"
               THEN [img EXCEPT !.cache[key] = a, !.processed[a] = @ + 1,
                                !.last = [asset |-> a, result |-> "cached", from |-> a]]
               ELSE [img EXCEPT !.last = [asset |-> a, result |-> "source", from |-> a]]
    /\ UNCHANGED <<handlers, sms, boot, schema>>

ImgInit ==
    /\ NoRequests
    /\ sms = NoSms /\ boot = NoBoot /\ schema = NoSchema
    /\ img = NoImg

ImgNext == \E a \in Assets : optimizeImage(a)

ImgSpec == ImgInit /\ [][ImgNext]_vars

\* ------------------------------------------------------------- specification
Next ==
    \/ \E r \in Req : SubmitBegin(r)
    \/ \E r \in Req : SubmitInsert(r)
    \/ \E r \in Req : SubmitRender(r)
    \/ \E r \in Req : SubmitUpload(r)
    \/ \E r \in Req : SubmitUpdatePath(r)
    \/ \E r \in Req : SubmitNotify(r)
    \/ \E r \in Req : SubmitMarkSent(r)
    \/ \E r \in Req : GenerateSelect(r)
    \/ \E r \in Req : SendCertSelect(r)
    \/ \E r \in Req : SendSmsSelect(r)
    \/ \E r \in Req : DownloadSelect(r)
    \/ \E r \in Req : Exists(r)
    \/ \E r \in Req : RegenRender(r)
    \/ \E r \in Req : RegenUpload(r)
    \/ \E r \in Req : RegenUpdatePath(r)
    \/ \E r \in Req : SendCertDownload(r)
    \/ \E r \in Req : DownloadFetch(r)
    \/ \E r \in Req : SendCertNotify(r)
    \/ \E r \in Req : SendSmsNotify(r)
    \/ \E r \in Req : SendCertMarkSent(r)
    \/ \E r \in Req : SendSmsMarkSent(r)
    \/ \E r \in Req : DataSelect(r)
    \/ \E r \in Req : Health(r)
    \/ Tick

Spec == Init /\ [][Next]_vars

\* The steps of request r after its arrival: each is the return (or throw)
\* of the collaborator call the handler is awaiting.
Continue(r) ==
    \/ SubmitInsert(r) \/ SubmitRender(r) \/ SubmitUpload(r) \/ SubmitUpdatePath(r)
    \/ SubmitNotify(r) \/ SubmitMarkSent(r)
    \/ Exists(r) \/ RegenRender(r) \/ RegenUpload(r) \/ RegenUpdatePath(r)
    \/ SendCertDownload(r) \/ DownloadFetch(r)
    \/ SendCertNotify(r) \/ SendSmsNotify(r)
    \/ SendCertMarkSent(r) \/ SendSmsMarkSent(r)

\* Every collaborator call eventually returns or throws.
FairSpec == Spec /\ \A r \in Req : WF_vars(Continue(r))

\* ------------------------------------------------------------- properties
RowIds == 1..Len(rows)

Responded(q) == q.pc = "done"

InFlight(q) == q.pc \notin {"idle", "done"}

Senders == {"submit", "sendcert", "sendsms"}

\* The step in which request r's notifier call fails.
NotifierFails(r) == req'[r].notifyFailed /\ ~req[r].notifyFailed

\* The step in which request r commits the update that sets certificate_sent.
CommitsSent(r) == req'[r].sentWrites > req[r].sentWrites

\* The channel a sending request notifies through.
ChannelUsed(q) ==
    CASE q.ep = "submit" -> Channel(q.email, q.phone)
      [] q.ep = "sendcert" -> "email"
      [] q.ep = "sendsms" -> "sms"
      [] OTHER -> "none"

\* C1: in /api/submit, /api/send-certificate/:id and /api/send-sms/:id the
\* update that sets certificate_sent happens only after the notifier call of
\* the same request has returned success; a request whose notifier call
\* throws never writes certificate_sent; and a row is marked sent only by
\* such an update.
C1_SentOnlyAfterNotifierSuccess ==
    /\ \A r \in Req :
         /\ req[r].sentWrites > 0 => req[r].ep \in Senders /\ req[r].notifyOk
         /\ req[r].notifyFailed => req[r].sentWrites = 0 /\ ~req[r].notifyOk
         /\ req[r].pc = "markSent" => req[r].notifyOk
    /\ \A i \in RowIds :
         rows[i].certificate_sent =>
           \E r \in Req : req[r].id = i /\ req[r].sentWrites > 0 /\ req[r].notifyOk

C1_Witness ==
    \E r, p \in Req :
      /\ req[p].ep = "submit" /\ req[p].notifyFailed /\ Responded(req[p])
      /\ req[r].ep = "sendsms" /\ req[r].id = req[p].id /\ req[r].sentWrites = 1
      /\ rows[req[r].id].certificate_sent

\* C2: when the notifier call fails in /api/submit, /api/send-certificate/:id
\* or /api/send-sms/:id, nothing is rolled back: the step changes neither the
\* table nor the blob container, the submission still references an artifact
\* that is in the container (storage key and URL naming the same blob), the
\* sent flag keeps its value, and the request responds with an error.
C2_NotifierFailureKeepsArtifact ==
    [][\A r \in Req :
         NotifierFails(r) =>
           /\ rows' = rows
           /\ blobs' = blobs
           /\ req'[r].status = 500
           /\ req'[r].sentWrites = 0
           /\ rows'[req[r].id].certificate_path # NoKey
           /\ rows'[req[r].id].certificate_path \in blobs'
           /\ UrlBlob(rows'[req[r].id].certificate_url) = rows'[req[r].id].certificate_path]_vars

C2_Witness ==
    \E r \in Req :
      /\ req[r].ep = "sendsms" /\ req[r].notifyFailed /\ req[r].status = 500
      /\ rows[req[r].id].certificate_path \in blobs
      /\ ~rows[req[r].id].certificate_sent

\* C3: after a /api/submit whose notifier failed, a second fulfilment of that
\* submission by id (send-certificate or send-sms) that finds the artifact
\* referenced and its blob present performs no render and no upload; the
\* failed submit has written no sent flag and its artifact is in the container.
C3_RecoverySkipsRegeneration ==
    \A s, r \in Req :
      ( /\ req[s].ep = "submit" /\ req[s].notifyFailed
        /\ req[r].ep \in {"sendcert", "sendsms"} /\ req[r].id = req[s].id
        /\ InFlight(req[r])
        /\ req[r].participant.certificate_url # NoUrl
        /\ req[r].participant.certificate_path \in blobs )
      => /\ req[r].renders = 0 /\ req[r].uploads = 0
         /\ req[r].pc \notin {"render", "upload", "updatePath"}
         /\ req[s].sentWrites = 0

\* C4: once a request has responded, with success or with an error raised at
\* or after the upload step, no temporary certificate file it created is
\* left in the certificates directory.
C4_NoTempFileAfterResponse ==
    \A r \in Req :
      (Responded(req[r]) /\ (req[r].status \in {200, 201} \/ req[r].uploads > 0))
      => req[r].created \cap files = {}

\* C5: a request whose blob upload fails calls no notifier, writes neither
\* the storage key / URL nor the sent flag, timestamp or channel, and
\* responds with an error; a submission touched by no other request keeps
\* the fulfilment fields it was inserted with.
C5_UploadFailureIsFatal ==
    \A r \in Req :
      req[r].uploadFailed =>
        /\ req[r].status = 500
        /\ req[r].emailCalls = 0 /\ req[r].smsCalls = 0
        /\ req[r].pathWrites = 0 /\ req[r].sentWrites = 0
        /\ ( (req[r].ep = "submit" /\ \A p \in Req \ {r} : req[p].id # req[r].id)
             => /\ rows[req[r].id].certificate_path = NoKey
                /\ rows[req[r].id].certificate_url = NoUrl
                /\ ~rows[req[r].id].certificate_sent
                /\ rows[req[r].id].certificate_sent_at = NoTime
                /\ rows[req[r].id].send_method = NULL )

C5_Witness ==
    \E r \in Req :
      /\ req[r].ep = "submit" /\ req[r].uploadFailed /\ req[r].renders = 1
      /\ \A p \in Req \ {r} : req[p].ep = "idle"
      /\ blobs # {}

\* C6: whenever a notification has succeeded and its update is committed,
\* the persisted send_method is the channel of that notification, whichever
\* of /api/submit, /api/send-certificate/:id, /api/send-sms/:id performed it.
C6_SendMethodIsLastChannel ==
    [][\A r \in Req :
         CommitsSent(r) => rows'[req[r].id].send_method = ChannelUsed(req[r])]_vars

\* C7 (as stated): the sent timestamp is written exactly once; once set, no
\* later successful notification changes it.
C7_TimestampWrittenOnce ==
    [][\A i \in RowIds :
         rows[i].certificate_sent_at # NoTime
           => rows'[i].certificate_sent_at = rows[i].certificate_sent_at]_vars

\* C7 (amended): the sent timestamp is written by every update that sets the
\* sent flag, first send or re-send alike, and by nothing else: after such an
\* update it is the time of that update, and it is set exactly when the sent
\* flag is.
C7_TimestampIsLastSend ==
    [][/\ \A r \in Req :
            CommitsSent(r) =>
              /\ rows'[req[r].id].certificate_sent
              /\ rows'[req[r].id].certificate_sent_at = now
       /\ \A i \in RowIds :
            rows'[i].certificate_sent_at # rows[i].certificate_sent_at
              => \E r \in Req : req[r].id = i /\ CommitsSent(r)
       /\ \A i \in 1..Len(rows') :
            rows'[i].certificate_sent <=> rows'[i].certificate_sent_at # NoTime]_vars

C7_Witness ==
    \E r, p \in Req :
      /\ r # p /\ req[r].id = req[p].id
      /\ req[p].ep = "submit" /\ req[p].sentWrites = 1
      /\ req[r].ep = "sendcert" /\ req[r].sentWrites = 1 /\ req[r].status = 200
      /\ rows[req[r].id].certificate_sent_at = MaxTime

\* C8: the sent flag is monotonic over every interleaving of requests: a new
\* row starts with certificate_sent false, rows are never removed, and a row
\* whose flag is true keeps it true in every step, regeneration and failing
\* re-sends included.
C8_SentFlagMonotonic ==
    [][/\ Len(rows') >= Len(rows)
       /\ \A i \in RowIds : rows[i].certificate_sent => rows'[i].certificate_sent
       /\ \A i \in 1..Len(rows') : i \notin RowIds => ~rows'[i].certificate_sent]_vars

C8_Witness ==
    \E r, g \in Req :
      /\ req[r].sentWrites = 1
      /\ req[g].ep = "generate" /\ req[g].id = req[r].id /\ req[g].status = 200
      /\ rows[req[r].id].certificate_sent
      /\ rows[req[r].id].certificate_path[2] > rows[req[r].id].certificate_sent_at

\* A contact field counts as given when it holds more than white space.
Given(s) == s \notin {NULL, "", " "}

\* The strict priority rule on a stored submission.
PriorityChannel(row) ==
    IF Given(row.email) THEN "email"
    ELSE IF Given(row.phone) THEN "sms"
    ELSE "none"

\* C9: for every accepted submission /api/submit notifies through exactly
\* the channel of the priority rule (email if given, else sms if phone is
\* given, else none and no notification), never through both notifiers, and
\* the sendMethod it answers and the send_method it persists are that channel.
C9_SubmitChannelPriority ==
    \A r \in Req :
      (req[r].ep = "submit" /\ req[r].inserted) =>
        LET ch == PriorityChannel(rows[req[r].id])
        IN  /\ req[r].emailCalls + req[r].smsCalls <= 1
            /\ req[r].emailCalls = 1 => ch = "email"
            /\ req[r].smsCalls = 1 => ch = "sms"
            /\ req[r].pc \in {"notify", "markSent"} => ch # "none"
            /\ req[r].status = 201 =>
                 /\ req[r].sendMethod = ch
                 /\ req[r].emailCalls = (IF ch = "email" THEN 1 ELSE 0)
                 /\ req[r].smsCalls = (IF ch = "sms" THEN 1 ELSE 0)
            /\ req[r].sentWrites > 0 => rows[req[r].id].send_method = ch

C9_Witness ==
    \E r \in Req :
      /\ req[r].ep = "submit" /\ req[r].status = 201 /\ req[r].sendMethod = "email"
      /\ rows[req[r].id].email = "a@x.com" /\ rows[req[r].id].phone = "9876543210"
      /\ rows[req[r].id].send_method = "email"
      /\ \A p \in Req \ {r} : req[p].ep = "idle"

\* C10: whenever a fulfilment by /api/submit ends with channel none (the
\* request is rejected for lack of a contact, or answers sendMethod none),
\* the result has sent = false and the request has made no artifact-store
\* call and no notifier call.
C10_ChannelNoneMakesNoCalls ==
    \A r \in Req :
      ( /\ req[r].ep = "submit" /\ Responded(req[r])
        /\ (req[r].status = 400 \/ req[r].sendMethod = "none") )
      => /\ req[r].uploads = 0 /\ req[r].existsCalls = 0
         /\ req[r].emailCalls = 0 /\ req[r].smsCalls = 0
         /\ req[r].sentWrites = 0

\* A by-id request that looks the artifact up (it found a stored reference
\* and asked the blob store).
Fulfilments == {"sendcert", "sendsms", "download"}

\* C11: regeneration is idempotent. No request renders or uploads more than
\* once, and a fulfilment request that finds a stored reference and gets the
\* blob store's answer skips regeneration: it renders nothing, uploads
\* nothing and leaves the stored key and URL as they are. So two fulfilments
\* in succession render and upload at most once in total.
C11_RegenerationIdempotent ==
    \A r \in Req :
      /\ req[r].renders <= 1 /\ req[r].uploads <= 1
      /\ (req[r].ep \in Fulfilments /\ req[r].existsCalls > 0 /\ ~req[r].existsThrew)
           => /\ req[r].renders = 0 /\ req[r].uploads = 0 /\ req[r].pathWrites = 0
              /\ req[r].pc \notin {"render", "upload", "updatePath"}

\* The first fulfilment regenerates (nothing was stored), the second one
\* finds the reference, checks the blob and regenerates nothing.
C11_Witness ==
    \E r, p \in Req :
      /\ r < p /\ req[r].id = req[p].id
      /\ req[r].ep = "sendsms" /\ req[r].status = 200
      /\ req[r].renders = 1 /\ req[r].uploads = 1 /\ req[r].pathWrites = 1
      /\ req[p].ep \in Fulfilments /\ req[p].status = 200
      /\ req[p].existsCalls = 1 /\ ~req[p].existsThrew
      /\ req[p].renders = 0 /\ req[p].uploads = 0

\* The statements whose failure is a collaborator's (store, renderer, blob
\* store, HTTP fetch, notifier, file system).
CollaboratorFaults == {"db", "render", "upload", "download", "notify", "unlink"}

\* C12: a send-certificate request for a submission with an email and no
\* stored reference, in which no collaborator call fails, regenerates the
\* artifact, stores the new key and URL, sends the email and marks the
\* submission sent, all in that one request (response 200).
C12_SendCertRegeneratesAndSends ==
    \A r \in Req :
      (/\ req[r].ep = "sendcert" /\ Responded(req[r])
       /\ req[r].existsCalls = 0 /\ req[r].renders = 1
       /\ req[r].fault \notin CollaboratorFaults)
      => /\ req[r].status = 200
         /\ req[r].uploads = 1 /\ req[r].pathWrites = 1
         /\ req[r].emailCalls = 1 /\ req[r].sentWrites = 1

\* C13: a failed render reaches the handler as an error: the request is
\* answered with an error status, nothing is uploaded, no notifier is
\* called, and key, URL, sent flag and channel are not written.
C13_RenderFailureIsHandled ==
    \A r \in Req :
      req[r].fault = "render"
      => /\ Responded(req[r]) /\ req[r].status = 500
         /\ req[r].uploads = 0 /\ req[r].emailCalls = 0 /\ req[r].smsCalls = 0
         /\ req[r].pathWrites = 0 /\ req[r].sentWrites = 0

\* C14: an error of the existence check aborts the request: it is answered
\* with an error status and nothing is rendered, uploaded or notified.
C14_ExistsErrorAborts ==
    \A r \in Req :
      req[r].existsThrew
      => /\ Responded(req[r]) /\ req[r].status = 500
         /\ req[r].renders = 0 /\ req[r].uploads = 0
         /\ req[r].emailCalls = 0 /\ req[r].smsCalls = 0

\* C15: every upload uses a key of its own that embeds the submission id:
\* the keys uploaded by a request name that request's submission, and no two
\* requests, concurrent or not, upload under the same key.
C15_UploadKeysUnique ==
    \A r, p \in Req :
      /\ \A k \in req[r].uploadKeys : k[1] = req[r].id
      /\ r # p => req[r].uploadKeys \cap req[p].uploadKeys = {}

\* The step in which request r puts its URL into an SMS (send-sms) or
\* fetches the artifact from it (send-certificate, download).
UsesUrl(r) ==
    \/ req[r].ep = "sendsms" /\ req'[r].smsCalls > req[r].smsCalls
    \/ /\ req[r].ep \in {"sendcert", "download"} /\ req[r].pc = "download"
       /\ req'[r].pc \notin {"download", "crashed"}

\* C16: a time-limited URL is never reused beyond its expiry: a stored URL
\* that was already past its time limit when the request read it is never
\* the one the request puts into an SMS or fetches the artifact from (it is
\* regenerated instead).
C16_ExpiredUrlNotReused ==
    [][\A r \in Req : UsesUrl(r) => ~(req[r].stale /\ req[r].renders = 0)]_vars

\* C17: every certificate email carries the persisted submission's name, its
\* email address as the recipient, and its id.
C17_MailCarriesSubmission ==
    \A r \in Req :
      req[r].emailCalls > 0
      => /\ req[r].id \in RowIds
         /\ req[r].mail.to = rows[req[r].id].email
         /\ req[r].mail.name = rows[req[r].id].name
         /\ req[r].mail.certificateId = req[r].id

\* C18: the number sendCertificateSMS hands to the SMS provider is the
\* trimmed phone with +91 prepended when it does not start with '+', and the
\* trimmed phone itself when it does (9876543210 becomes +919876543210); it
\* always starts with '+', and normalising a destination again changes
\* nothing.
C18_PhoneNormalised ==
    /\ NormalizePhone(<<"9", "8", "7", "6", "5", "4", "3", "2", "1", "0">>)
         = <<"+", "9", "1", "9", "8", "7", "6", "5", "4", "3", "2", "1", "0">>
    /\ sms.called
       => LET t == TrimChars(sms.phone)
          IN  /\ sms.to # <<>> /\ sms.to[1] = "+"
              /\ StartsWithPlus(t) => sms.to = t
              /\ ~StartsWithPlus(t) => sms.to = CountryCode \o t
              /\ t # <<>> => (t[1] # " " /\ t[Len(t)] # " ")
              /\ \E k \in 0..(Len(sms.phone) - Len(t)) :
                   SubSeq(sms.phone, k + 1, k + Len(t)) = t
              /\ sms.fed => sms.to = sms.phone

\* A number that got the country code prepended is sent again and goes out
\* unchanged.
C18_Witness ==
    /\ sms.called /\ sms.fed /\ sms.result = "sent"
    /\ Len(sms.phone) > MaxPhoneLen
    /\ sms.to = sms.phone

ClientErrors == {400, 404}

\* C19: a request answered with a client error (4xx) has had no side effect:
\* it inserted no row, updated none, rendered nothing, uploaded nothing and
\* called no notifier.
C19_ClientErrorNoSideEffects ==
    \A r \in Req :
      req[r].status \in ClientErrors
      => /\ ~req[r].inserted
         /\ req[r].pathWrites = 0 /\ req[r].sentWrites = 0
         /\ req[r].renders = 0 /\ req[r].created = {}
         /\ req[r].uploads = 0 /\ req[r].uploadKeys = {}
         /\ req[r].emailCalls = 0 /\ req[r].smsCalls = 0

\* A fulfilment request for a stored submission is rejected because the
\* submission lacks the contact the endpoint needs.
C19_Witness ==
    \E r \in Req :
      /\ req[r].ep \in {"sendcert", "sendsms"} /\ req[r].status = 400
      /\ req[r].id \in RowIds
      /\ rows[req[r].id].certificate_sent

\* C20: status codes classify outcomes. A request in which a step failed is
\* answered 500 and a rejected one 4xx; /api/submit answers 201 exactly when
\* insert, render, upload, store update, the selected channel's notification
\* and the cleanup all succeeded; every other request that succeeds answers
\* 200.
C20_StatusClassifiesOutcome ==
    \A r \in Req :
      LET q == req[r]
      IN  /\ q.fault # "none" => (Responded(q) /\ q.status = 500)
          /\ Responded(q) => q.status \in {200, 201, 400, 404, 500}
          /\ (Responded(q) /\ q.status = 500) => q.fault # "none"
          /\ (Responded(q) /\ q.fault = "none" /\ q.status \notin ClientErrors)
               => q.status = IF q.ep = "submit" THEN 201 ELSE 200
          /\ q.status = 201
               => /\ q.ep = "submit" /\ q.fault = "none" /\ q.inserted
                  /\ q.renders = 1 /\ q.uploads = 1 /\ ~q.uploadFailed
                  /\ q.pathWrites = 1 /\ ~q.notifyFailed
                  /\ q.sendMethod # "none" => (q.notifyOk /\ q.sentWrites = 1)

\* The stored key and URL of a row name the same blob (or are both unset).
SamePair(row) ==
    IF row.certificate_path = NoKey THEN row.certificate_url = NoUrl
    ELSE row.certificate_url # NoUrl /\ UrlBlob(row.certificate_url) = row.certificate_path

\* The step in which request r commits the update of key and URL.
CommitsPath(r) == req'[r].pathWrites > req[r].pathWrites

\* C21: regeneration overwrites. A submission holds one key and one URL that
\* always name the same blob; they change only in a step that commits a
\* (re)generation for that submission, and then they are the key and the URL
\* of that upload.
C21_RegenerationOverwrites ==
    [][\A id \in 1..Len(rows') :
         /\ SamePair(rows'[id])
         /\ id \in RowIds => SamePair(rows[id])
         /\ (id \in RowIds /\ (rows'[id].certificate_path # rows[id].certificate_path
                               \/ rows'[id].certificate_url # rows[id].certificate_url))
              => \E r \in Req : /\ CommitsPath(r) /\ req[r].id = id
         /\ \A r \in Req :
              (CommitsPath(r) /\ req[r].id = id)
              => /\ rows'[id].certificate_path = req[r].fileName
                 /\ rows'[id].certificate_url = req[r].certificateUrl
                 /\ req[r].certificateUrl # NoUrl]_vars

\* A submission whose artifact was stored by one request and overwritten, at
\* a later time, by another.
C21_Witness ==
    \E r, p \in Req :
      /\ r # p /\ req[r].id = req[p].id /\ req[r].id \in RowIds
      /\ req[r].pathWrites = 1 /\ req[p].pathWrites = 1
      /\ req[r].uploadKeys # req[p].uploadKeys
      /\ rows[req[r].id].certificate_path \in req[p].uploadKeys
      /\ rows[req[r].id].certificate_path[2] > 0

\* A request the server has received.
Started(q) == q.ep # "idle"

\* C22: once started, a request runs to completion or failure: if every
\* collaborator call eventually returns or throws, every request the server
\* has received is eventually answered.
C22_EveryRequestAnswered ==
    \A r \in Req : Started(req[r]) ~> Responded(req[r])

\* C26: a submission whose sent flag is true has a storage key and an
\* access URL.
C26_SentHasArtifact ==
    \A id \in RowIds :
      rows[id].certificate_sent
      => rows[id].certificate_path # NoKey /\ rows[id].certificate_url # NoUrl

\* A submission delivered by a by-id request that had to regenerate first.
C26_Witness ==
    \E r \in Req :
      /\ req[r].ep = "sendsms" /\ req[r].status = 200
      /\ req[r].pathWrites = 1 /\ req[r].sentWrites = 1
      /\ rows[req[r].id].certificate_sent
      /\ rows[req[r].id].certificate_path # NoKey

\* C28: concurrent send-certificate requests do not interfere through the
\* local hand-off file: from the moment a request has written its temp file
\* until it has sent the mail and is about to delete the file, the file is
\* there (no other request has deleted it).
C28_TempFileNotShared ==
    \A r, p \in Req :
      (/\ r # p /\ req[r].ep = "sendcert" /\ req[p].ep = "sendcert"
       /\ req[r].id = req[p].id
       /\ req[r].pc \in {"notify", "markSent"})
      => req[r].tempPath \in files

\* C29: a failed /api/submit leaves no trace in the store: a submit request
\* answered with an error status has left no row behind.
C29_FailedSubmitLeavesNoRow ==
    \A r \in Req :
      (req[r].ep = "submit" /\ Responded(req[r]) /\ req[r].status # 201)
      => ~(req[r].inserted /\ req[r].id \in RowIds)

\* The request that acts in a step (the one whose slot changes).
Acts(r) == req'[r] # req[r] /\ req'[r].pc # "crashed"

\* The delivery fields of a row.
Delivery(row) == <<row.certificate_sent, row.certificate_sent_at, row.send_method>>

\* C30: frame of the non-delivering operations. A step of
\* generate-certificate or download-certificate leaves every submission's
\* sent flag, sent timestamp and channel as they are and calls no notifier;
\* a step of /api/data or /api/health changes no persisted state; and a step
\* of any by-id operation changes no submission but the one it names.
C30_NonDeliveringFrame ==
    [][\A r \in Req :
         Acts(r) =>
           /\ req'[r].ep \in {"generate", "download"}
                => /\ \A id \in RowIds : Delivery(rows'[id]) = Delivery(rows[id])
                   /\ req'[r].emailCalls = 0 /\ req'[r].smsCalls = 0
                   /\ req'[r].sentWrites = 0
           /\ req'[r].ep \in {"data", "health"}
                => /\ rows' = rows /\ blobs' = blobs /\ files' = files
                   /\ req'[r].pathWrites = 0 /\ req'[r].sentWrites = 0
                   /\ req'[r].renders = 0 /\ req'[r].uploads = 0
           /\ req'[r].ep \in ByIdEndpoints
                => /\ Len(rows') = Len(rows)
                   /\ \A id \in RowIds : id # req'[r].id => rows'[id] = rows[id]]_vars

\* A regeneration by generate-certificate has been committed while the table
\* holds another submission, already delivered, and /api/data was served.
C30_Witness ==
    \E r, p \in Req :
      /\ req[r].ep = "generate" /\ req[r].status = 200 /\ req[r].pathWrites = 1
      /\ req[p].ep \in {"data", "submit"} /\ Responded(req[p])
      /\ Len(rows) = 2
      /\ rows[req[r].id].certificate_path # NoKey

\* C23: lazy-init-once. Between startup and closeConnection sql.connect is
\* invoked at most once and every caller of getConnection receives that one
\* pool; the blob container client is constructed at most once.
C23_ClientsConstructedOnce ==
    /\ boot.connects <= 1
    /\ boot.clients <= 1
    /\ \A c \in Callers : boot.caller[c].pool \in {0, 1}

\* C27: no handler performs a store or blob operation before startup
\* initialisation has completed successfully, and no blob operation uses the
\* container before its existence has been confirmed or it has been created.
C27_NoOperationBeforeStartup ==
    \A c \in Callers :
      ~boot.caller[c].storeEarly /\ ~boot.caller[c].blobEarly

\* C24: initializeDatabase is additive and idempotent. From any existing
\* schema it only creates the table or adds missing columns, which are
\* nullable; it never drops or alters a column that was there, nor a row;
\* and a run on the schema a completed run has left changes nothing.
C24_SchemaAdditiveIdempotent ==
    LET orig == schema.orig
    IN  /\ orig.table => schema.table
        /\ schema.nrows = orig.nrows
        /\ \A c \in Columns :
             /\ (orig.table /\ orig.cols[c] # "absent") => schema.cols[c] = orig.cols[c]
             /\ (orig.table /\ orig.cols[c] = "absent")
                  => /\ schema.cols[c] \in {"absent", "null"}
                     /\ schema.cols[c] = "null" => c \in {"certificate_url", "send_method"}
        /\ (orig.table /\ orig.index) => schema.index
        /\ (~orig.table /\ schema.table) => schema.cols = CreatedColumns
        /\ schema.settled # <<>> => Shape(schema) = schema.settled

\* A table with a row and without the certificate_url column has had the
\* column added, and a second run on the result has completed.
C24_Witness ==
    /\ schema.orig.table /\ schema.orig.nrows = 1
    /\ schema.orig.cols["certificate_url"] = "absent"
    /\ schema.orig.cols["send_method"] = "notnull"
    /\ schema.cols["certificate_url"] = "null"
    /\ schema.runs = 1 /\ schema.pc = "done"

\* C25: optimizeImage falls back and memoises per asset: a call returns the
\* source path or a cached result; an asset is processed at most once; and
\* a cached result is returned only for the asset it was produced from.
C25_ImageCachePerAsset ==
    /\ \A a \in Assets : img.processed[a] <= 1
    /\ img.last.result = "source" => img.last.from = img.last.asset
    /\ img.last.result = "cached" => img.last.from = img.last.asset

====
